---------------------------- MODULE Spec2Model ----------------------------
(***************************************************************************)
(* Model of qwfilter/kalman.py: the unscented transform, the unscented     *)
(* predictor and corrector and the filter driver.                          *)
(*                                                                         *)
(* Real numbers are exact rationals <<num, den>> (den > 0, lowest terms);  *)
(* floating-point rounding is not modelled.  Vectors are sequences of      *)
(* rationals, matrices are sequences of rows.  A square root is taken only *)
(* where it is rational; inputs whose factor is irrational are outside the *)
(* domain of the model (SqrtDefined).                                      *)
(***************************************************************************)
EXTENDS Integers, Sequences, FiniteSets, TLC

\* ------------------------------------------------------------------ bounds
\* Longest measurement sequence handed to filter().
MaxN == 2
\* Cap on the time index k of the work object handed to predict.
MaxK == 1
\* State vectors are (c, c + 1, ...) for c in 0..MaxX; measured values are
\* in 0..MaxX.
MaxX == 1

\* Input dimensions of the transform (model.nx).
Dims == {1, 2}
\* Number of outputs of the measurement function (model.ny).
Ny == 2

\* --------------------------------------------------------------- rationals
Abs(i) == IF i < 0 THEN -i ELSE i

RECURSIVE GCD(_, _)
GCD(a, b) == IF b = 0 THEN a ELSE GCD(b, a % b)

Rat(n, d) ==
    LET s == IF d < 0 THEN -1 ELSE 1
        g == GCD(Abs(n), Abs(d))
    IN  <<(s * n) \div g, (s * d) \div g>>

RInt(i) == <<i, 1>>
RZero == <<0, 1>>
ROne == <<1, 1>>
RHalf == <<1, 2>>
RAdd(a, b) == Rat(a[1] * b[2] + b[1] * a[2], a[2] * b[2])
RNeg(a) == <<-a[1], a[2]>>
RSub(a, b) == RAdd(a, RNeg(b))
RMul(a, b) == Rat(a[1] * b[1], a[2] * b[2])
RDiv(a, b) == Rat(a[1] * b[2], a[2] * b[1])
RPos(a) == a[1] > 0

IsSquare(n) == \E r \in 0..n : r * r = n
ISqrt(n) == CHOOSE r \in 0..n : r * r = n
\* a >= 0 has a rational square root
RIsSquare(a) == a[1] >= 0 /\ IsSquare(a[1]) /\ IsSquare(a[2])
RSqrt(a) == <<ISqrt(a[1]), ISqrt(a[2])>>

RECURSIVE RSum(_)
RSum(s) == IF s = <<>> THEN RZero ELSE RAdd(s[1], RSum(Tail(s)))

\* ---------------------------------------------------------------- matrices
Rows(M) == Len(M)
VecAdd(u, v) == [i \in 1..Len(u) |-> RAdd(u[i], v[i])]
VecSub(u, v) == [i \in 1..Len(u) |-> RSub(u[i], v[i])]
VecNeg(u) == [i \in 1..Len(u) |-> RNeg(u[i])]
VecScale(c, u) == [i \in 1..Len(u) |-> RMul(c, u[i])]
ZeroVec(n) == [i \in 1..n |-> RZero]
Dot(u, v) == RSum([i \in 1..Len(u) |-> RMul(u[i], v[i])])
MatVec(A, v) == [i \in 1..Len(A) |-> Dot(A[i], v)]
MatAdd(A, B) == [i \in 1..Len(A) |-> VecAdd(A[i], B[i])]
MatScale(c, A) == [i \in 1..Len(A) |-> VecScale(c, A[i])]
MatNeg(A) == [i \in 1..Len(A) |-> VecNeg(A[i])]
Transpose(A, ncol) == [j \in 1..ncol |-> [i \in 1..Len(A) |-> A[i][j]]]
\* A (r x m) times B (m x c)
MatMul(A, B, c) ==
    [i \in 1..Len(A) |-> [j \in 1..c |->
        RSum([k \in 1..Len(B) |-> RMul(A[i][k], B[k][j])])]]
\* A^T A for A with n columns
Gram(A, n) == MatMul(Transpose(A, n), A, n)
IntVec(v) == [i \in 1..Len(v) |-> RInt(v[i])]
IntMat(M) == [i \in 1..Len(M) |-> IntVec(M[i])]
Eye(n) == [i \in 1..n |-> [j \in 1..n |-> IF i = j THEN ROne ELSE RZero]]
IsDiagonal(M) == \A i, j \in 1..Len(M) : i # j => M[i][j] = RZero
IsSymmetric(M) == \A i, j \in 1..Len(M) : M[i][j] = M[j][i]

\* np.einsum('k,ki', weights, sigma): the weighted sum of the rows
WeightedRowSum(w, X, n) ==
    [i \in 1..n |-> RSum([k \in 1..Len(X) |-> RMul(w[k], X[k][i])])]
\* np.einsum('ki,kj,k', X, Y, weights)
WeightedOuterSum(X, Y, w, n, m) ==
    [i \in 1..n |-> [j \in 1..m |->
        RSum([k \in 1..Len(X) |-> RMul(RMul(X[k][i], Y[k][j]), w[k])])]]


None == <<>>

\* ---------------------------------------------------- matrix square roots
\* scipy.linalg.cholesky(Q, lower=False): the upper-triangular U with positive
\* diagonal and U^T U = Q, computed row by row from the upper triangle of Q;
\* LinAlgError when a pivot is not positive.  "Inexact" marks an irrational
\* pivot root, which the model does not represent.
RECURSIVE CholRows(_, _, _)
CholRows(Q, n, U) ==
    IF Len(U) = n THEN [err |-> "none", S |-> U]
    ELSE
      LET i == Len(U) + 1
          piv == RSub(Q[i][i], RSum([k \in 1..(i - 1) |-> RMul(U[k][i], U[k][i])]))
      IN  IF ~RPos(piv) THEN [err |-> "LinAlgError", S |-> None]
          ELSE IF ~RIsSquare(piv) THEN [err |-> "Inexact", S |-> None]
          ELSE
            LET d == RSqrt(piv)
                row == [j \in 1..n |->
                          IF j < i THEN RZero
                          ELSE IF j = i THEN d
                          ELSE RDiv(RSub(Q[i][j],
                                         RSum([k \in 1..(i - 1) |->
                                                 RMul(U[k][i], U[k][j])])), d)]
            IN  CholRows(Q, n, Append(U, row))

\* Mutant of CholeskyUpper: the lower-triangular factor is returned
\* (lower=True).
CholeskyLower(Q) ==
    LET r == CholRows(Q, Len(Q), <<>>)
    IN  IF r.err # "none" THEN r
        ELSE [err |-> "none", S |-> Transpose(r.S, Len(Q))]

CholeskyUpper(Q) == CholRows(Q, Len(Q), <<>>)

RAbs(a) == <<Abs(a[1]), a[2]>>
RLeq(a, b) == a[1] * b[2] <= b[1] * a[2]

\* The orders of the diagonal by non-increasing magnitude (LAPACK returns the
\* singular values sorted; equal values may come in either order).
SortedPerms(Q) ==
    LET n == Len(Q)
    IN  {p \in [1..n -> 1..n] :
            /\ \A i, j \in 1..n : i # j => p[i] # p[j]
            /\ \A i \in 1..(n - 1) : RLeq(RAbs(Q[p[i + 1]][p[i + 1]]), RAbs(Q[p[i]][p[i]]))}

\* scipy.linalg.svd(Q) of a diagonal Q: s = |diag| sorted, U a signed
\* permutation (the sign of each singular vector is the library's choice);
\* the value returned is transpose(U * sqrt(s)), whose row j is
\* sqrt(s[j]) * U[:, j].
SvdSqrtSet(Q) ==
    LET n == Len(Q)
    IN  {[j \in 1..n |-> [i \in 1..n |->
            IF i = p[j]
            THEN RMul(RInt(sg[j]), RSqrt(RAbs(Q[p[j]][p[j]])))
            ELSE RZero]] :
         p \in SortedPerms(Q), sg \in [1..n -> {1, -1}]}

SvdExact(Q) == IsDiagonal(Q) /\ \A i \in 1..Len(Q) : RIsSquare(RAbs(Q[i][i]))

\* CholeskyUnscentedTransform.sqrt / SVDUnscentedTransform.sqrt: the results
\* the back end can give for Q.
SqrtResults(backend, Q) ==
    IF backend = "cholesky" THEN {CholeskyUpper(Q)}
    ELSE {[err |-> "none", S |-> S] : S \in SvdSqrtSet(Q)}

\* Q is in the domain the model represents exactly.
SqrtDefined(backend, Q) ==
    IF backend = "cholesky" THEN CholeskyUpper(Q).err # "Inexact"
    ELSE SvdExact(Q)

\* ------------------------------------------------ UnscentedTransformBase
UTNsigma(nin, kappa) == 2 * nin + (IF kappa # RZero THEN 1 ELSE 0)

\* Mutant of UTWeights: the centre weight is not overwritten.
UTWeightsNoCentre(nin, kappa, nsigma) ==
    [k \in 1..nsigma |-> RDiv(RHalf, RAdd(RInt(nin), kappa))]

UTWeights(nin, kappa, nsigma) ==
    [k \in 1..nsigma |->
        IF kappa # RZero /\ k = nsigma
        THEN RDiv(kappa, RAdd(RInt(nin), kappa))
        ELSE RDiv(RHalf, RAdd(RInt(nin), kappa))]

\* UnscentedTransformBase.__init__ (the assertion nin + kappa != 0 is the
\* guard of construction, see UTOptionsOk).  attrs: the attributes set on the
\* transform object besides those of the constructor.
UTOptionsOk(nin, kappa) == RAdd(RInt(nin), kappa) # RZero

UTNew(nin, kappa, backend) ==
    [nin |-> nin, kappa |-> kappa, sqrt |-> backend,
     nsigma |-> UTNsigma(nin, kappa),
     weights |-> UTWeights(nin, kappa, UTNsigma(nin, kappa)),
     attrs |-> {}]

\* UnscentedTransformBase.Work
NoWork ==
    [xin |-> None, Pin |-> None, xin_sigma |-> None, xin_dev |-> None,
     xout_sigma |-> None, xout_dev |-> None, xout |-> None, Pout |-> None]

NewWork(xin, Pin) == [NoWork EXCEPT !.xin = xin, !.Pin = Pin]

\* The matrix handed to sqrt by gen_sigma_points.
ScaledCov(u, Pin) == MatScale(RAdd(RInt(u.nin), u.kappa), Pin)

\* Mutant of GenSigmaPoints: the second block of deviations is not negated.
GenSigmaPointsSameSign(u, w, S) ==
    LET nin == u.nin
        xin_dev == [k \in 1..u.nsigma |->
                      IF k <= nin THEN S[k]
                      ELSE IF k <= 2 * nin THEN S[k - nin]
                      ELSE ZeroVec(nin)]
        xin_sigma == [k \in 1..u.nsigma |-> VecAdd(xin_dev[k], w.xin)]
    IN  [w EXCEPT !.xin_sigma = xin_sigma, !.xin_dev = xin_dev]

\* gen_sigma_points once sqrt has returned S.
GenSigmaPoints(u, w, S) ==
    LET nin == u.nin
        xin_dev == [k \in 1..u.nsigma |->
                      IF k <= nin THEN S[k]
                      ELSE IF k <= 2 * nin THEN VecNeg(S[k - nin])
                      ELSE ZeroVec(nin)]
        xin_sigma == [k \in 1..u.nsigma |-> VecAdd(xin_dev[k], w.xin)]
    IN  [w EXCEPT !.xin_sigma = xin_sigma, !.xin_dev = xin_dev]

\* The functions handed to transform: an affine map x -> A x + b or the
\* elementwise square, applied to each sigma point (row).
ApplyF(f, X) ==
    [k \in 1..Len(X) |->
        IF f.kind = "affine" THEN VecAdd(MatVec(f.A, X[k]), f.b)
        ELSE [i \in 1..Len(X[k]) |-> RMul(X[k][i], X[k][i])]]

NOut(f, nin) == IF f.kind = "affine" THEN Len(f.b) ELSE nin

\* Mutant of Transform: the output mean is not subtracted from the
\* transformed sigma points.
TransformNoCentring(u, w, f, S) ==
    LET w1 == GenSigmaPoints(u, w, S)
        nout == NOut(f, u.nin)
        xout_sigma == ApplyF(f, w1.xin_sigma)
        xout == WeightedRowSum(u.weights, xout_sigma, nout)
        xout_dev == xout_sigma
        Pout == WeightedOuterSum(xout_dev, xout_dev, u.weights, nout, nout)
    IN  [w1 EXCEPT !.xout_sigma = xout_sigma, !.xout_dev = xout_dev,
                   !.xout = xout, !.Pout = Pout]

\* transform once sqrt has returned S.
Transform(u, w, f, S) ==
    LET w1 == GenSigmaPoints(u, w, S)
        nout == NOut(f, u.nin)
        xout_sigma == ApplyF(f, w1.xin_sigma)
        xout == WeightedRowSum(u.weights, xout_sigma, nout)
        xout_dev == [k \in 1..u.nsigma |-> VecSub(xout_sigma[k], xout)]
        Pout == WeightedOuterSum(xout_dev, xout_dev, u.weights, nout, nout)
    IN  [w1 EXCEPT !.xout_sigma = xout_sigma, !.xout_dev = xout_dev,
                   !.xout = xout, !.Pout = Pout]

\* The ways gen_sigma_points(work) can end.
GenSigmaPointsOutcomes(u, w) ==
    {IF r.err # "none"
     THEN [exc |-> r.err, work |-> w, sq |-> None, ret |-> None]
     ELSE LET w1 == GenSigmaPoints(u, w, r.S)
          IN  [exc |-> "none", work |-> w1, sq |-> r.S, ret |-> w1.xin_sigma] :
     r \in SqrtResults(u.sqrt, ScaledCov(u, w.Pin))}

\* The ways transform(work, f) can end.
TransformOutcomes(u, w, f) ==
    {IF r.err # "none"
     THEN [exc |-> r.err, work |-> w, sq |-> None, ret |-> None]
     ELSE LET w2 == Transform(u, w, f, r.S)
          IN  [exc |-> "none", work |-> w2, sq |-> r.S,
               ret |-> <<w2.xout, w2.Pout>>] :
     r \in SqrtResults(u.sqrt, ScaledCov(u, w.Pin))}

\* crosscov(work)
Crosscov(u, w) ==
    IF w.xin_dev = None \/ w.xout_dev = None
    THEN [exc |-> "AttributeError", ret |-> None]
    ELSE [exc |-> "none",
          ret |-> WeightedOuterSum(w.xin_dev, w.xout_dev, u.weights,
                                   u.nin, Len(w.xout))]

\* Mutant of SigmaPointsDiff: self.in_dev is not looked up first.
SigmaPointsDiffNoCheck(u) == "AttributeError"

\* sigma_points_diff: reads self.in_dev, then self.sqrt.diff (the bound
\* method sqrt has no attribute diff).
SigmaPointsDiff(u) ==
    IF "in_dev" \notin u.attrs THEN "RuntimeError_NotTransformed"
    ELSE "AttributeError"

\* transform_diff: reads self.in_dev, self.out_dev, self.in_sigma, then
\* calls sigma_points_diff.
TransformDiff(u) ==
    IF ~({"in_dev", "out_dev", "in_sigma"} \subseteq u.attrs)
    THEN "RuntimeError_NotTransformed"
    ELSE SigmaPointsDiff(u)


\* ----------------------------------------------------------------- inputs
\* Relative weights of the centre sigma point (the kappa option).
Kappas == {RInt(-3), RZero, RHalf, ROne}
\* Those the filter is built with.
FilterKappas == {RInt(-3), RZero}
SqrtOptions == {"cholesky", "svd"}

\* State vectors of dimension n.
XPool(n) == {[i \in 1..n |-> RInt(c + i - 1)] : c \in 0..MaxX}

\* Covariance candidates of dimension n: multiples of a few symmetric shapes
\* (positive definite, negative definite and indefinite ones).
CovScales == {-2, -1, 1, 2, 3, 6, 10}
CovShapes(n) ==
    IF n = 1 THEN {<<<<1>>>>}
    ELSE {<<<<1, 0>>, <<0, 1>>>>, <<<<1, 0>>, <<0, 4>>>>,
          <<<<1, 1>>, <<1, 2>>>>, <<<<1, 2>>, <<2, 1>>>>}
PPool(n) == {MatScale(RInt(c), IntMat(B)) : c \in CovScales, B \in CovShapes(n)}

\* Functions from R^n to R^n: affine maps and the elementwise square.
AMats(n) ==
    IF n = 1 THEN {<<<<2>>>>, <<<<-1>>>>}
    ELSE {<<<<1, 2>>, <<0, -1>>>>, <<<<0, 1>>, <<1, 1>>>>}
Arange(n) == [i \in 1..n |-> RInt(i - 1)]
Funs(n) ==
    {[kind |-> "affine", A |-> IntMat(A), b |-> Arange(n)] : A \in AMats(n)}
    \cup {[kind |-> "square", A |-> None, b |-> None]}

\* A measurement vector is a sequence of values, each with its mask bit.
AllMasked(y) == \A i \in 1..Len(y) : y[i].m

\* The values of the pem attribute a caller assigns.
PemModes == {"off", "on", "grad"}

\* ------------------------------------------------------------------ state
VARIABLES
    ut,       \* the unscented transform object (its options and weights)
    utwork,   \* a UnscentedTransformBase.Work object handed to the transform
    utf,      \* history: the function last handed to transform with utwork
    model,    \* the system model: dimensions and drift function
    work,     \* the work object handed to predict: k, x, Px, prev_x, prev_Px
    pred_ut,  \* work.pred_ut
    flt,      \* the filter object's own attributes: k, x, Px, L, derivatives, pem
    pending,  \* history: the forward step that last returned normally
    last      \* the last call: operation, exception, argument, value returned

vars == <<ut, utwork, utf, model, work, pred_ut, flt, pending, last>>

Call(op, exc, arg, ret, sq) ==
    [op |-> op, exc |-> exc, arg |-> arg, ret |-> ret, sq |-> sq]

\* The attributes of the filter object before a caller assigns them:
\* DTKalmanFilterBase.__init__ sets only self.model.
FltUnset ==
    [set |-> FALSE, k |-> None, x |-> None, Px |-> None, L |-> None,
     dx_dq |-> None, dPx_dq |-> None, dL_dq |-> None, pem |-> None]

\* The constructors: the transform is built from the options; the filter
\* object has no state attribute yet.
InitObjects ==
    /\ \E n \in Dims, kap \in Kappas, sq \in SqrtOptions :
          /\ UTOptionsOk(n, kap)
          /\ ut = UTNew(n, kap, sq)
    /\ utwork = NoWork
    /\ utf = None
    /\ pred_ut = NoWork
    /\ flt = FltUnset
    /\ pending = "none"
    /\ last = Call("init", "none", None, None, None)

\* ------------------------------------------- the transform on its own
InitUT ==
    /\ InitObjects
    /\ model = [nx |-> ut.nin, ny |-> Ny, f |-> None, Q |-> None]
    /\ work = None

\* work = ut.Work(xin, Pin)
UTWork ==
    /\ utwork = NoWork
    /\ \E xin \in XPool(ut.nin), Pin \in PPool(ut.nin) :
          /\ SqrtDefined(ut.sqrt, ScaledCov(ut, Pin))
          /\ utwork' = NewWork(xin, Pin)
    /\ last' = Call("Work", "none", None, None, None)
    /\ UNCHANGED <<ut, utf, model, work, pred_ut, flt, pending>>

\* ut.gen_sigma_points(work), on a work object not yet used
UTGenSigmaPoints ==
    /\ utwork.xin # None
    /\ utwork.xin_sigma = None
    /\ \E o \in GenSigmaPointsOutcomes(ut, utwork) :
          /\ utwork' = o.work
          /\ last' = Call("gen_sigma_points", o.exc, None, o.ret, o.sq)
    /\ UNCHANGED <<ut, utf, model, work, pred_ut, flt, pending>>

\* ut.transform(work, f), on a work object that holds no output yet
UTTransform ==
    /\ utwork.xin # None
    /\ utwork.xout = None
    /\ \E f \in Funs(ut.nin) : \E o \in TransformOutcomes(ut, utwork, f) :
          /\ utwork' = o.work
          /\ utf' = IF o.exc = "none" THEN f ELSE utf
          /\ last' = Call("transform", o.exc, f, o.ret, o.sq)
    /\ UNCHANGED <<ut, model, work, pred_ut, flt, pending>>

\* ut.crosscov(work)
UTCrosscov ==
    /\ utwork.xin # None
    /\ last' = Call("crosscov", Crosscov(ut, utwork).exc, None,
                    Crosscov(ut, utwork).ret, None)
    /\ UNCHANGED <<ut, utwork, utf, model, work, pred_ut, flt, pending>>

\* ut.sigma_points_diff(mean_diff, cov_diff)
UTSigmaPointsDiff ==
    /\ last' = Call("sigma_points_diff", SigmaPointsDiff(ut), None, None, None)
    /\ UNCHANGED <<ut, utwork, utf, model, work, pred_ut, flt, pending>>

\* ut.transform_diff(f_diff, mean_diff, cov_diff)
UTTransformDiff ==
    /\ last' = Call("transform_diff", TransformDiff(ut), None, None, None)
    /\ UNCHANGED <<ut, utwork, utf, model, work, pred_ut, flt, pending>>

NextUT ==
    \/ UTWork
    \/ UTGenSigmaPoints
    \/ UTTransform
    \/ UTCrosscov
    \/ UTSigmaPointsDiff
    \/ UTTransformDiff

SpecUT == InitUT /\ [][NextUT]_vars


\* ------------------------------------- predictor, corrector and driver
\* The names bound at module level in kalman.py: imports, functions, classes.
ModuleGlobals ==
    {"abc", "collections", "re", "np", "ma", "numpy", "scipy", "utils",
     "DTKalmanFilterBase", "svd_sqrt", "ldl_sqrt", "cholesky_sqrt_diff",
     "cholesky_sqrt_diff2", "UnscentedTransformBase",
     "CholeskyUnscentedTransform", "SVDUnscentedTransform",
     "DTUnscentedPredictor", "DTUnscentedCorrector", "DTUnscentedKalmanFilter"}

\* The names bound inside DTUnscentedPredictor.predict.
PredictLocals == {"self", "work", "f_fun", "f", "Pf", "Q"}

\* Mutant of PredictOutcomes: the state is advanced before the transform is
\* run, so a failure of the square root leaves it advanced.
PredictOutcomesEager(u, m, wk) ==
    {[exc |-> (IF t.exc # "none" THEN t.exc ELSE "NameError"),
      work |-> [wk EXCEPT !.prev_x = wk.x, !.prev_Px = wk.Px, !.k = wk.k + 1],
      pred_ut |-> t.work] :
     t \in TransformOutcomes(u, NewWork(wk.x, wk.Px), m.f)}

\* Mutant of PredictOutcomes: the state is assigned before Q is evaluated,
\* and Px is built from the cross covariance of the sigma points instead of
\* the output covariance.
PredictOutcomesCross(u, m, wk) ==
    {IF t.exc # "none"
     THEN [exc |-> t.exc, work |-> wk, pred_ut |-> t.work]
     ELSE [exc |-> "NameError",
           work |-> [wk EXCEPT !.prev_x = wk.x, !.prev_Px = wk.Px,
                               !.x = t.ret[1],
                               !.Px = MatAdd(Crosscov(u, t.work).ret, m.Q)],
           pred_ut |-> t.work] :
     t \in TransformOutcomes(u, NewWork(wk.x, wk.Px), m.f)}

\* DTUnscentedPredictor.predict(work): work.pred_ut is made and transformed;
\* then the name k in `self.model.Q(k, work.x)` is looked up.
PredictOutcomes(u, m, wk) ==
    {IF t.exc # "none"
     THEN [exc |-> t.exc, work |-> wk, pred_ut |-> t.work]
     ELSE IF "k" \notin (PredictLocals \cup ModuleGlobals)
     THEN [exc |-> "NameError", work |-> wk, pred_ut |-> t.work]
     ELSE [exc |-> "none",
           work |-> [wk EXCEPT !.prev_x = wk.x, !.prev_Px = wk.Px,
                               !.k = wk.k + 1, !.x = t.ret[1],
                               !.Px = MatAdd(t.ret[2], m.Q)],
           pred_ut |-> t.work] :
     t \in TransformOutcomes(u, NewWork(wk.x, wk.Px), m.f)}

\* Mutant of Correct: the early return is taken when any component is
\* masked, not when all are.
CorrectAnyMasked(fl, m, y) ==
    IF Len(y) # m.ny THEN [exc |-> "AssertionError", flt |-> fl, steps |-> <<>>]
    ELSE IF (\E i \in 1..Len(y) : y[i].m) /\ ~AllMasked(y)
    THEN [exc |-> "none", flt |-> fl, steps |-> <<>>]
    ELSE IF ~fl.set THEN [exc |-> "AttributeError", flt |-> fl, steps |-> <<>>]
    ELSE [exc |-> "TypeError", flt |-> fl, steps |-> <<>>]

\* Mutant of Correct: the innovation is accumulated from the stored values of
\* every component, masked ones included, before the transform is called.
CorrectRawValues(fl, m, y) ==
    IF Len(y) # m.ny THEN [exc |-> "AssertionError", flt |-> fl, steps |-> <<>>]
    ELSE IF AllMasked(y) THEN [exc |-> "none", flt |-> fl, steps |-> <<>>]
    ELSE IF ~fl.set THEN [exc |-> "AttributeError", flt |-> fl, steps |-> <<>>]
    ELSE [exc |-> "TypeError",
          flt |-> [fl EXCEPT !.L = RSub(fl.L, RSum([i \in 1..Len(y) |-> RInt(y[i].v)]))],
          steps |-> <<>>]

\* DTUnscentedCorrector.correct(y): the shape assertion, the return when every
\* component is masked, then `self.__ut.transform(h_fun, self.x, self.Px)`:
\* self.x is read (AttributeError when it was never assigned) and transform,
\* which takes (work, f), is called with three arguments (TypeError).  The
\* statements after that call are never reached.  steps: the derivative steps
\* run inside the call.
Correct(fl, m, y) ==
    IF Len(y) # m.ny THEN [exc |-> "AssertionError", flt |-> fl, steps |-> <<>>]
    ELSE IF AllMasked(y) THEN [exc |-> "none", flt |-> fl, steps |-> <<>>]
    ELSE IF ~fl.set THEN [exc |-> "AttributeError", flt |-> fl, steps |-> <<>>]
    ELSE [exc |-> "TypeError", flt |-> fl, steps |-> <<>>]

\* Mutant of CalculatePredictionGrad: dx_dq is overwritten before the
\* transform derivative is requested.
CalculatePredictionGradEager(fl, u) ==
    IF ~fl.set THEN [exc |-> "AttributeError", flt |-> fl]
    ELSE [exc |-> TransformDiff(u), flt |-> [fl EXCEPT !.dx_dq = None]]

\* DTUnscentedPredictor._calculate_prediction_grad: reads self.k, self.x,
\* self.dx_dq, self.dPx_dq, then calls transform_diff, which raises; the
\* assignments after the call are never reached.
CalculatePredictionGrad(fl, u) ==
    IF ~fl.set THEN [exc |-> "AttributeError", flt |-> fl]
    ELSE [exc |-> TransformDiff(u), flt |-> fl]

\* DTUnscentedCorrector._calculate_correction_grad: the same reads, then
\* transform_diff(..., True); the updates of dx_dq, dPx_dq and dL_dq after the
\* call are never reached.
CalculateCorrectionGrad(fl, u) ==
    IF ~fl.set THEN [exc |-> "AttributeError", flt |-> fl]
    ELSE [exc |-> TransformDiff(u), flt |-> fl]

\* DTKalmanFilterBase.filter(y): its first statement raises.
Filter(Y) == [exc |-> "NotImplementedError", calls |-> <<>>]

\* Covariances of the work object handed to predict.
FilterCovs(u) ==
    {P \in PPool(u.nin) :
        /\ P \in {MatScale(RInt(c), B) :
                    c \in {d \in CovScales : d > 0},
                    B \in {Eye(u.nin), IntMat(<<<<1, 1>>, <<1, 2>>>>)}}
        /\ SqrtDefined(u.sqrt, ScaledCov(u, P))}

MeasPool == {[i \in 1..Ny |-> [v |-> i, m |-> mask[i]]] : mask \in [1..Ny -> BOOLEAN]}
\* Measurement sequences: every second sample is masked.
MeasSeqs ==
    {[i \in 1..N |-> [j \in 1..Ny |-> [v |-> j, m |-> (i % 2 = 0)]]] : N \in 0..MaxN}

\* Number of parameters (model.nq).
Nq == 1
OnesMat(r, c) == [i \in 1..r |-> [j \in 1..c |-> ROne]]
ZeroMat(r, c) == [i \in 1..r |-> [j \in 1..c |-> RZero]]

Init ==
    /\ InitObjects
    /\ model = [nx |-> ut.nin, ny |-> Ny,
                f |-> [kind |-> "square", A |-> None, b |-> None],
                Q |-> Eye(ut.nin)]
    /\ ut.kappa \in FilterKappas
    /\ \E x \in XPool(ut.nin), Px \in FilterCovs(ut) :
          work = [k |-> 0, x |-> x, Px |-> Px, prev_x |-> None, prev_Px |-> None]

\* The caller assigns the filter's state attributes (the constructor sets
\* none of them).
SetState ==
    /\ ~flt.set
    /\ \E pem \in PemModes :
          flt' = [set |-> TRUE, k |-> 0, x |-> Arange(ut.nin),
                  Px |-> Eye(ut.nin), L |-> RZero,
                  dx_dq |-> OnesMat(Nq, ut.nin),
                  dPx_dq |-> [q \in 1..Nq |-> ZeroMat(ut.nin, ut.nin)],
                  dL_dq |-> ZeroVec(Nq), pem |-> pem]
    /\ last' = Call("set_state", "none", None, None, None)
    /\ UNCHANGED <<ut, utwork, utf, model, work, pred_ut, pending>>

\* filter.predict(work), with work below the cap on the time index
Predict ==
    /\ work.k <= MaxK
    /\ \E o \in PredictOutcomes(ut, model, work) :
          /\ work' = o.work
          /\ pred_ut' = o.pred_ut
          /\ pending' = IF o.exc = "none" THEN "predict" ELSE pending
          /\ last' = Call("predict", o.exc, None, None, None)
    /\ UNCHANGED <<ut, utwork, utf, model, flt>>

\* filter.correct(y)
DoCorrect ==
    \E y \in MeasPool :
        /\ flt' = Correct(flt, model, y).flt
        /\ pending' = IF Correct(flt, model, y).exc = "none" THEN "correct" ELSE pending
        /\ last' = Call("correct", Correct(flt, model, y).exc, y,
                        Correct(flt, model, y).steps, None)
        /\ UNCHANGED <<ut, utwork, utf, model, work, pred_ut>>

\* filter._calculate_prediction_grad()
PredictionDiff ==
    /\ flt' = CalculatePredictionGrad(flt, ut).flt
    /\ pending' = IF CalculatePredictionGrad(flt, ut).exc = "none" THEN "none" ELSE pending
    /\ last' = Call("prediction_diff", CalculatePredictionGrad(flt, ut).exc,
                    None, None, None)
    /\ UNCHANGED <<ut, utwork, utf, model, work, pred_ut>>

\* filter._calculate_correction_grad(active, e, K, Pxh, Py, PyI, PyC)
CorrectionDiff ==
    /\ flt' = CalculateCorrectionGrad(flt, ut).flt
    /\ pending' = IF CalculateCorrectionGrad(flt, ut).exc = "none" THEN "none" ELSE pending
    /\ last' = Call("correction_diff", CalculateCorrectionGrad(flt, ut).exc,
                    None, None, None)
    /\ UNCHANGED <<ut, utwork, utf, model, work, pred_ut>>

\* filter.filter(Y)
DoFilter ==
    \E Y \in MeasSeqs :
        /\ last' = Call("filter", Filter(Y).exc, Y, Filter(Y).calls, None)
        /\ UNCHANGED <<ut, utwork, utf, model, work, pred_ut, flt, pending>>

Next ==
    \/ SetState
    \/ Predict
    \/ DoCorrect
    \/ PredictionDiff
    \/ CorrectionDiff
    \/ DoFilter

Spec == Init /\ [][Next]_vars

\* ------------------------------------------------ claims on the transform
\* M is symmetric positive definite (by its Schur complements).
RECURSIVE PosPivots(_)
PosPivots(M) ==
    /\ RPos(M[1][1])
    /\ \/ Len(M) = 1
       \/ PosPivots([i \in 1..(Len(M) - 1) |-> [j \in 1..(Len(M) - 1) |->
              RSub(M[i + 1][j + 1],
                   RDiv(RMul(M[i + 1][1], M[1][j + 1]), M[1][1]))]])
IsSPD(M) == IsSymmetric(M) /\ PosPivots(M)

NinPlusKappa == RAdd(RInt(ut.nin), ut.kappa)

\* C7: sigma_points_diff or transform_diff on a transform on which no forward
\* pass (sigma points, transform) has been run fails with the error "Transform
\* must be done before requesting derivatives" and returns no value.
C7_DiffBeforeTransform ==
    (last.op \in {"sigma_points_diff", "transform_diff"} /\ utwork.xin_sigma = None)
        => (last.exc = "RuntimeError_NotTransformed" /\ last.ret = None)

C7_Witness ==
    /\ last.op = "transform_diff"
    /\ utwork.xin_sigma = None
    /\ last.exc = "RuntimeError_NotTransformed"

\* C8: the weights are 1 / (2 (ni + kappa)) for the 2 ni symmetric points plus,
\* only when kappa is not zero, the centre weight kappa / (ni + kappa); there
\* are nsigma of them (2 ni when kappa = 0, else 2 ni + 1) and they sum to 1.
C8_Weights ==
    LET n == ut.nin
        sym == RDiv(ROne, RMul(RInt(2), NinPlusKappa))
    IN  /\ ut.nsigma = (IF ut.kappa = RZero THEN 2 * n ELSE 2 * n + 1)
        /\ Len(ut.weights) = ut.nsigma
        /\ \A k \in 1..(2 * n) : ut.weights[k] = sym
        /\ ut.kappa # RZero => ut.weights[2 * n + 1] = RDiv(ut.kappa, NinPlusKappa)
        /\ RSum(ut.weights) = ROne

C8_Witness ==
    /\ ut.nin = 2
    /\ ut.kappa = RHalf
    /\ Len(ut.weights) = 5
    /\ ut.weights[5] = <<1, 5>>

\* C9: whenever the square root returned S with S^T S = (ni + kappa) Px, the
\* deviations are the rows of S, then the rows of -S, then (only when kappa is
\* not zero) a zero row; their weighted sum is zero, the weighted mean of the
\* sigma points is x, and the weighted sum of the outer products of the
\* deviations is Px.
C9_SigmaPoints ==
    (/\ last.op \in {"gen_sigma_points", "transform"}
     /\ last.exc = "none"
     /\ Gram(last.sq, ut.nin) = ScaledCov(ut, utwork.Pin))
        => LET n == ut.nin
               S == last.sq
               dev == utwork.xin_dev
           IN  /\ Len(dev) = (IF ut.kappa = RZero THEN 2 * n ELSE 2 * n + 1)
               /\ \A k \in 1..n : dev[k] = S[k] /\ dev[n + k] = VecNeg(S[k])
               /\ ut.kappa # RZero => dev[2 * n + 1] = ZeroVec(n)
               /\ WeightedRowSum(ut.weights, dev, n) = ZeroVec(n)
               /\ WeightedRowSum(ut.weights, utwork.xin_sigma, n) = utwork.xin
               /\ WeightedOuterSum(dev, dev, ut.weights, n, n) = utwork.Pin

C9_Witness ==
    /\ last.op = "gen_sigma_points"
    /\ last.exc = "none"
    /\ Gram(last.sq, ut.nin) = ScaledCov(ut, utwork.Pin)
    /\ ut.nin = 2
    /\ ut.kappa # RZero
    /\ ~IsDiagonal(utwork.Pin)

\* What C10 states of a transform of the affine map f and of the crosscov
\* that follows it.
AffineExact ==
    /\ (last.op = "transform" /\ last.arg.kind = "affine")
          => /\ last.exc = "none"
             /\ last.ret[1] = VecAdd(MatVec(last.arg.A, utwork.xin), last.arg.b)
             /\ last.ret[2] = MatMul(MatMul(last.arg.A, utwork.Pin, ut.nin),
                                     Transpose(last.arg.A, ut.nin), ut.nin)
    /\ (last.op = "crosscov" /\ utf # None /\ utf.kind = "affine")
          => /\ last.exc = "none"
             /\ last.ret = MatMul(utwork.Pin, Transpose(utf.A, ut.nin), ut.nin)

\* C10 as stated: for every kappa with ni + kappa # 0, both back ends and a
\* covariance Px, transform of an affine map returns mean A x + b and
\* covariance A Px A^T, and the following crosscov returns Px A^T.
C10_AffineAnyKappa ==
    (utwork.Pin # None /\ IsSPD(utwork.Pin)) => AffineExact

\* C10 (amended): the same for every kappa with ni + kappa > 0.
C10_AffinePositiveKappa ==
    (utwork.Pin # None /\ IsSPD(utwork.Pin) /\ RPos(NinPlusKappa)) => AffineExact

C10_Witness ==
    /\ last.op = "crosscov"
    /\ last.exc = "none"
    /\ utf # None
    /\ utf.kind = "affine"
    /\ IsSPD(utwork.Pin)
    /\ ut.kappa = RHalf
    /\ ut.nin = 2
    /\ ut.sqrt = "svd"


\* ---------------------------------------------------- claims on the filter
\* The calls C1 expects of filter(Y): correct(Y[1]), then predict and
\* correct(Y[k]) for each further sample.
RECURSIVE ExpectedCalls(_, _)
ExpectedCalls(Y, k) ==
    IF k > Len(Y) THEN <<>>
    ELSE (IF k = 1 THEN <<>> ELSE <<[op |-> "predict", y |-> None]>>)
         \o <<[op |-> "correct", y |-> Y[k]]>> \o ExpectedCalls(Y, k + 1)

\* C1: filter(Y) on a sequence of N >= 1 measurements completes normally and
\* makes exactly N correct and N - 1 predict calls, alternating and in index
\* order, with no predict after the last correct.
C1_FilterAlternates ==
    (last.op = "filter" /\ Len(last.arg) >= 1)
        => (last.exc = "none" /\ last.ret = ExpectedCalls(last.arg, 1))

\* C2: in gradient mode a correct with an active measurement component is
\* followed by correction_diff and then likelihood_diff before anything else,
\* and a sweep runs prediction_diff after every predict.
C2_GradientInterleaving ==
    /\ (last.op = "correct" /\ flt.set /\ flt.pem = "grad" /\ ~AllMasked(last.arg))
          => (last.exc = "none"
              /\ last.ret = <<"correction_diff", "likelihood_diff">>)
    /\ (last.op = "filter" /\ flt.set /\ flt.pem = "grad")
          => (last.exc = "none"
              /\ \A i \in 1..Len(last.ret) :
                    last.ret[i].op = "predict"
                        => (i < Len(last.ret) /\ last.ret[i + 1].op = "prediction_diff"))

\* A derivative step is requested out of order: prediction_diff with no
\* predict, or correction_diff with no correct, completed before it.
DiffOutOfOrder ==
    \/ last'.op = "prediction_diff" /\ pending # "predict"
    \/ last'.op = "correction_diff" /\ pending # "correct"

DerivativesUnchanged ==
    /\ flt'.dx_dq = flt.dx_dq
    /\ flt'.dPx_dq = flt.dPx_dq
    /\ flt'.dL_dq = flt.dL_dq

C4_MaskedCorrectIsNoOp ==
    [][(last'.op = "correct" /\ AllMasked(last'.arg))
          => (last'.exc = "none" /\ UNCHANGED <<flt, work, pred_ut>>)]_vars

C4_Witness ==
    /\ last.op = "correct"
    /\ AllMasked(last.arg)
    /\ last.exc = "none"
    /\ flt.set
    /\ flt.pem = "grad"

\* C5: predict, entered with (k0, x0, Px0) for a covariance Px0, completes
\* and leaves k = k0 + 1, x = f_mean, Px = Pf + Q, where (f_mean, Pf) is the
\* unscented transform of (x0, Px0) through f, and prev_x = x0, prev_Px = Px0.
C5_PredictAdvances ==
    [][(last'.op = "predict" /\ IsSPD(work.Px) /\ RPos(NinPlusKappa))
          => \E t \in TransformOutcomes(ut, NewWork(work.x, work.Px), model.f) :
                /\ t.exc = "none"
                /\ last'.exc = "none"
                /\ work'.k = work.k + 1
                /\ work'.x = t.ret[1]
                /\ work'.Px = MatAdd(t.ret[2], model.Q)
                /\ work'.prev_x = work.x
                /\ work'.prev_Px = work.Px]_vars

IsUpperTriangular(M) == \A i, j \in 1..Len(M) : j < i => M[i][j] = RZero

\* C11: for every symmetric positive definite Q both back ends return S with
\* S^T S = Q; the Cholesky result is upper triangular with positive diagonal.
C11_SqrtIdentity ==
    (/\ last.op \in {"gen_sigma_points", "transform"}
     /\ IsSPD(ScaledCov(ut, utwork.Pin)))
        => /\ last.exc = "none"
           /\ Gram(last.sq, ut.nin) = ScaledCov(ut, utwork.Pin)
           /\ ut.sqrt = "cholesky"
                 => /\ IsUpperTriangular(last.sq)
                    /\ \A i \in 1..ut.nin : RPos(last.sq[i][i])

C11_Witness ==
    /\ last.op = "gen_sigma_points"
    /\ last.exc = "none"
    /\ ut.sqrt = "cholesky"
    /\ IsSPD(ScaledCov(ut, utwork.Pin))
    /\ ~IsDiagonal(last.sq)


\* ------------------------------------------- further claims on the filter
\* The covariances held: that of the work object and, once assigned, that of
\* the filter.
CovsSymmetric(wk, fl) ==
    /\ IsSymmetric(wk.Px)
    /\ fl.set => IsSymmetric(fl.Px)

SqrtValues == {"absent", "cholesky", "svd", "ldl"}
\* Values of the `kappa` option, with one that makes nin + kappa zero.
NewKappas == Kappas \cup {RInt(-1)}
Classes == {"predictor", "corrector", "filter"}
Options == [sqrt : SqrtValues, pred_ut_sqrt : SqrtValues,
            corr_ut_sqrt : SqrtValues, kappa : NewKappas]

\* utils.extract_subkeys(options, prefix): the options whose key starts with
\* the prefix, under the key without it.
ExtractSubkeys(options, prefix) ==
    [sqrt |-> IF prefix = "pred_ut_" THEN options.pred_ut_sqrt
              ELSE options.corr_ut_sqrt]

\* ut_options = options.copy(); ut_options.update(extract_subkeys(...))
UTOptions(options, prefix) ==
    LET sub == ExtractSubkeys(options, prefix)
    IN  [sqrt |-> IF sub.sqrt # "absent" THEN sub.sqrt ELSE options.sqrt,
         kappa |-> options.kappa]

\* Mutant of SelectUT: an unknown `sqrt` value falls through to the last
\* back end instead of raising.
SelectUTLenient(nx, ut_options) ==
    LET sqrt == IF ut_options.sqrt = "absent" THEN "cholesky" ELSE ut_options.sqrt
        backend == IF sqrt = "cholesky" THEN "cholesky" ELSE "svd"
    IN  IF ~UTOptionsOk(nx, ut_options.kappa)
        THEN [exc |-> "AssertionError", ut |-> None]
        ELSE [exc |-> "none", ut |-> UTNew(nx, ut_options.kappa, backend)]

\* The selection of the transform class and the creation of the transform in
\* DTUnscentedPredictor.__init__ and DTUnscentedCorrector.__init__.
SelectUT(nx, ut_options) ==
    LET sqrt == IF ut_options.sqrt = "absent" THEN "cholesky" ELSE ut_options.sqrt
    IN  IF sqrt \notin {"cholesky", "svd"}
        THEN [exc |-> "ValueError", ut |-> None]
        ELSE IF ~UTOptionsOk(nx, ut_options.kappa)
        THEN [exc |-> "AssertionError", ut |-> None]
        ELSE [exc |-> "none", ut |-> UTNew(nx, ut_options.kappa, sqrt)]

\* cls(model, **options).  For the filter, DTUnscentedPredictor.__init__ first
\* calls super().__init__, which is DTUnscentedCorrector.__init__, and then
\* selects its own transform.
NewFilter(cls, nx, options) ==
    LET c == IF cls \in {"corrector", "filter"}
             THEN SelectUT(nx, UTOptions(options, "corr_ut_"))
             ELSE [exc |-> "none", ut |-> None]
        p == IF cls \in {"predictor", "filter"} /\ c.exc = "none"
             THEN SelectUT(nx, UTOptions(options, "pred_ut_"))
             ELSE [exc |-> "none", ut |-> None]
        exc == IF c.exc # "none" THEN c.exc ELSE p.exc
    IN  [exc |-> exc,
         pred |-> IF exc = "none" THEN p.ut ELSE None,
         corr |-> IF exc = "none" THEN c.ut ELSE None]

\* Before any object is built.
InitNew ==
    /\ ut = None
    /\ utwork = NoWork
    /\ utf = None
    /\ pred_ut = NoWork
    /\ flt = FltUnset
    /\ pending = "none"
    /\ work = None
    /\ \E n \in Dims : model = [nx |-> n, ny |-> Ny, f |-> None, Q |-> None]
    /\ last = Call("init", "none", None, None, None)

\* obj = cls(model, **options), once; ut stands for the transform of the object
\* built (the predictor's, or the corrector's when cls is the corrector).
Construct ==
    /\ ut = None
    /\ last.op = "init"
    /\ \E cls \in Classes, options \in Options :
          LET r == NewFilter(cls, model.nx, options)
          IN  /\ ut' = IF cls = "corrector" THEN r.corr ELSE r.pred
              /\ last' = Call("new", r.exc, [cls |-> cls, options |-> options],
                              [pred |-> IF r.pred = None THEN "none" ELSE r.pred.sqrt,
                               corr |-> IF r.corr = None THEN "none" ELSE r.corr.sqrt],
                              None)
    /\ UNCHANGED <<utwork, utf, model, work, pred_ut, flt, pending>>

\* The transform of the object built, put to use.
NewUTWork == ut # None /\ UTWork
NewUTGenSigmaPoints == ut # None /\ UTGenSigmaPoints

NextNew ==
    \/ Construct
    \/ NewUTWork
    \/ NewUTGenSigmaPoints

SpecNew == InitNew /\ [][NextNew]_vars

\* The `sqrt` option in force for the transform of one direction: the
\* prefixed option when given, else the plain one.
SqrtInForce(options, dir) ==
    LET own == IF dir = "pred" THEN options.pred_ut_sqrt ELSE options.corr_ut_sqrt
    IN  IF own # "absent" THEN own ELSE options.sqrt
\* The directions whose transform a class builds.
Directions(cls) ==
    IF cls = "predictor" THEN {"pred"}
    ELSE IF cls = "corrector" THEN {"corr"}
    ELSE {"pred", "corr"}

C14_SvdDiffNotImplemented ==
    (last.op \in {"sigma_points_diff", "transform_diff"} /\ ut.sqrt = "svd")
        => (last.exc = "NotImplementedError" /\ last.ret = None)


\* Df/Dq of the model of Init (f the elementwise square, independent of q,
\* and dPx/dq zero) at the state x0: every sigma point has the derivative
\* dx/dq, so Df/Dq[q][i] = 2 x0[i] dx/dq[q][i].
DfDqSquare(x0, dx_dq) ==
    [q \in 1..Len(dx_dq) |-> [i \in 1..Len(x0) |->
        RMul(RMul(RInt(2), x0[i]), dx_dq[q][i])]]

\* C15: prediction_diff, run after predict, evaluates the model derivatives
\* at the time index and state that were current when predict was entered,
\* with the dx/dq and dPx/dq of before the step, and leaves dx/dq = Df/Dq
\* (and dPx/dq = DPf/Dq + DQ/Dq).
C15_PredictionDiffAtPrevious ==
    [][(/\ last'.op = "prediction_diff"
        /\ flt.set
        /\ pred_ut.xout # None)
          => (/\ last'.exc = "none"
              /\ flt'.dx_dq = DfDqSquare(pred_ut.xin, flt.dx_dq))]_vars


\* ------------------------------------------------- cholesky_sqrt_diff
\* Largest diagonal entry of the factors tried.
MaxS == 2
\* Largest magnitude of the entries of dQ tried.
MaxD == 1

\* M without row i and column j.
Minor(M, i, j) ==
    [r \in 1..(Len(M) - 1) |-> [c \in 1..(Len(M) - 1) |->
        M[IF r < i THEN r ELSE r + 1][IF c < j THEN c ELSE c + 1]]]

RECURSIVE Det(_)
Det(M) ==
    IF Len(M) = 1 THEN M[1][1]
    ELSE RSum([j \in 1..Len(M) |->
            RMul(IF j % 2 = 1 THEN M[1][j] ELSE RNeg(M[1][j]),
                 Det(Minor(M, 1, j)))])

\* scipy.linalg.inv(M): the inverse, LinAlgError when M is singular.
MatInv(M) ==
    LET m == Len(M)
        d == Det(M)
    IN  IF d = RZero THEN [err |-> "LinAlgError", M |-> None]
        ELSE [err |-> "none",
              M |-> [i \in 1..m |-> [j \in 1..m |->
                        IF m = 1 THEN RDiv(ROne, d)
                        ELSE RDiv(IF (i + j) % 2 = 0 THEN Det(Minor(M, j, i))
                                  ELSE RNeg(Det(Minor(M, j, i))), d)]]]

\* np.tril_indices(n): the pairs <<i, j>> with j <= i, row by row.
RECURSIVE TrilIndices(_)
TrilIndices(n) ==
    IF n = 0 THEN <<>>
    ELSE TrilIndices(n - 1) \o [j \in 1..n |-> <<n, j>>]

\* Mutant of CholA: the second assignment overwrites instead of adding, so
\* the diagonal equations lose their doubled coefficient.
CholAOverwrite(S, p, q, r, c) ==
    IF r = q THEN S[c][p]
    ELSE IF r = p THEN S[c][q]
    ELSE RZero

\* The array A: A[i, j, i, k] = S[k, j], then A[i, j, j, k] += S[k, i].
CholA(S, p, q, r, c) ==
    RAdd(IF r = p THEN S[c][q] ELSE RZero, IF r = q THEN S[c][p] ELSE RZero)

\* A_tril = A[i, j][..., i, j]
ATril(S) ==
    LET t == TrilIndices(Len(S))
    IN  [a \in 1..Len(t) |-> [b \in 1..Len(t) |->
            CholA(S, t[a][1], t[a][2], t[b][1], t[b][2])]]

\* dQ = None: the derivatives are taken with respect to the entries of Q; one
\* slice for each pair (p, q), with ones at [p, q] and [q, p].
UnitSlices(n) ==
    [s \in 1..(n * n) |->
        LET p == ((s - 1) \div n) + 1
            q == ((s - 1) % n) + 1
        IN  [i \in 1..n |-> [j \in 1..n |->
                IF <<i, j>> \in {<<p, q>>, <<q, p>>} THEN ROne ELSE RZero]]]

\* cholesky_sqrt_diff(S, dQ): dQ a sequence of n x n slices, or None.  (The
\* `work` dictionary only receives the intermediate arrays.)
CholeskySqrtDiff(S, dQ) ==
    LET n == Len(S)
        t == TrilIndices(n)
        inv == MatInv(ATril(S))
        slices == IF dQ = None THEN UnitSlices(n) ELSE dQ
        dQ_tril(D) == [b \in 1..Len(t) |-> D[t[b][1]][t[b][2]]]
        dS_tril(D) == MatVec(inv.M, dQ_tril(D))
        at(i, j) == CHOOSE b \in 1..Len(t) : t[b] = <<i, j>>
    IN  IF inv.err # "none" THEN [exc |-> inv.err, ret |-> None]
        ELSE [exc |-> "none",
              ret |-> [s \in 1..Len(slices) |->
                         [r \in 1..n |-> [c \in 1..n |->
                             IF r <= c THEN dS_tril(slices[s])[at(c, r)]
                             ELSE RZero]]]]

\* Upper-triangular factors with positive diagonal, and their transposes (the
\* lower-triangular factors numpy.linalg.cholesky returns).
UpperFactors(n) ==
    {S \in [1..n -> [1..n -> -1..MaxS]] :
        /\ \A i \in 1..n : S[i][i] >= 1
        /\ \A i, j \in 1..n : (j < i => S[i][j] = 0) /\ (i < j => S[i][j] <= 1)}
Factors(n) ==
    {IntMat(S) : S \in UpperFactors(n)}
    \cup {Transpose(IntMat(S), n) : S \in UpperFactors(n)}
\* Symmetric dQ slices.
SymSlices(n) ==
    {IntMat(D) : D \in {E \in [1..n -> [1..n -> (-MaxD)..MaxD]] :
                           \A i, j \in 1..n : E[i][j] = E[j][i]}}

InitChol ==
    /\ ut = None
    /\ utwork = NoWork
    /\ utf = None
    /\ pred_ut = NoWork
    /\ flt = FltUnset
    /\ pending = "none"
    /\ work = None
    /\ model = None
    /\ last = Call("init", "none", None, None, None)

\* dS = cholesky_sqrt_diff(S, dQ), applied to one input
CallCholeskySqrtDiff ==
    /\ last.op = "init"
    /\ \E n \in Dims : \E S \in Factors(n) :
          \E dQ \in {<<D>> : D \in SymSlices(n)} \cup {None} :
              last' = Call("cholesky_sqrt_diff", CholeskySqrtDiff(S, dQ).exc,
                           [S |-> S, dQ |-> dQ], CholeskySqrtDiff(S, dQ).ret, None)
    /\ UNCHANGED <<ut, utwork, utf, model, work, pred_ut, flt, pending>>

\* numpy.linalg.cholesky(Py): the lower-triangular L with L L^T = Py;
\* LinAlgError when Py is not positive definite.
NumpyCholesky(Py) ==
    LET r == CholeskyUpper(Py)
    IN  IF r.err # "none" THEN r
        ELSE [err |-> "none", S |-> Transpose(r.S, Len(Py))]

\* The factorisation of the innovation covariance in correct:
\* PyC = numpy.linalg.cholesky(Py); PyCI = numpy.linalg.inv(PyC);
\* PyI = np.einsum('...ki,...kj', PyCI, PyCI).
FactorizeCovariance(Py) ==
    LET c == NumpyCholesky(Py)
        ci == MatInv(c.S)
    IN  IF c.err # "none" THEN [exc |-> c.err, PyC |-> None, PyI |-> None]
        ELSE IF ci.err # "none" THEN [exc |-> ci.err, PyC |-> None, PyI |-> None]
        ELSE [exc |-> "none", PyC |-> c.S, PyI |-> Gram(ci.M, Len(Py))]

\* Innovation covariances: those with an integer upper-triangular factor.
PyPool(n) == {Gram(IntMat(S), n) : S \in UpperFactors(n)}

\* The factorisation of correct applied to one Py, and the factor handed on
\* to cholesky_sqrt_diff with dPy/dq as _calculate_correction_grad does.
CallFactorize ==
    /\ last.op = "init"
    /\ \E n \in Dims : \E Py \in PyPool(n), dPy \in SymSlices(n) :
          LET F == FactorizeCovariance(Py)
              D == IF F.exc = "none" THEN CholeskySqrtDiff(F.PyC, <<dPy>>)
                   ELSE [exc |-> F.exc, ret |-> None]
          IN  last' = Call("factorize", D.exc, [Py |-> Py, dPy |-> dPy],
                           [PyC |-> F.PyC, PyI |-> F.PyI, dPyC |-> D.ret], None)
    /\ UNCHANGED <<ut, utwork, utf, model, work, pred_ut, flt, pending>>

NextChol ==
    \/ CallCholeskySqrtDiff
    \/ CallFactorize

SpecChol == InitChol /\ [][NextChol]_vars

\* S is an upper-triangular Cholesky factor (of S^T S).
IsCholeskyFactor(S) ==
    IsUpperTriangular(S) /\ \A i \in 1..Len(S) : RPos(S[i][i])

\* C16: for an upper-triangular Cholesky factor S and every symmetric dQ
\* slice, cholesky_sqrt_diff returns dS upper triangular with
\* dS^T S + S^T dS = dQ.
C16_CholeskyDiffIdentity ==
    (/\ last.op = "cholesky_sqrt_diff"
     /\ IsCholeskyFactor(last.arg.S)
     /\ last.arg.dQ # None)
        => /\ last.exc = "none"
           /\ Len(last.ret) = Len(last.arg.dQ)
           /\ \A s \in 1..Len(last.ret) :
                 LET n == Len(last.arg.S)
                     S == last.arg.S
                     dS == last.ret[s]
                 IN  /\ IsUpperTriangular(dS)
                     /\ MatAdd(MatMul(Transpose(dS, n), S, n),
                               MatMul(Transpose(S, n), dS, n)) = last.arg.dQ[s]

C16_Witness ==
    /\ last.op = "cholesky_sqrt_diff"
    /\ last.exc = "none"
    /\ Len(last.arg.S) = 2
    /\ IsCholeskyFactor(last.arg.S)
    /\ ~IsDiagonal(last.arg.S)
    /\ last.arg.dQ # None
    /\ ~IsDiagonal(last.arg.dQ[1])
    /\ last.arg.dQ[1][1][1] # RZero


\* C17: in correct, the factor PyC of the innovation covariance Py is the
\* upper-triangular Cholesky factor (PyC^T PyC = Py), PyI computed from its
\* inverse is the inverse of Py, and that upper-triangular PyC is the factor
\* handed to the Cholesky derivative, which then differentiates the
\* factorisation of Py.
C17_UpperInnovationFactor ==
    last.op = "factorize" =>
        LET n == Len(last.arg.Py)
            PyC == last.ret.PyC
            dPyC == last.ret.dPyC[1]
        IN  /\ last.exc = "none"
            /\ IsUpperTriangular(PyC)
            /\ Gram(PyC, n) = last.arg.Py
            /\ MatMul(last.ret.PyI, last.arg.Py, n) = Eye(n)
            /\ MatAdd(MatMul(Transpose(dPyC, n), PyC, n),
                      MatMul(Transpose(PyC, n), dPyC, n)) = last.arg.dPy


\* C18: after a forward transform has been run on a transform with the
\* Cholesky back end, a following transform_diff finds the input sigma
\* points, input deviations and output deviations of that pass and does not
\* fail with the not-transformed error.
C18_DiffAfterTransform ==
    (/\ last.op = "transform_diff"
     /\ ut.sqrt = "cholesky"
     /\ utwork.xout # None)
        => (/\ last.exc # "RuntimeError_NotTransformed"
            /\ {"in_sigma", "in_dev", "out_dev"} \subseteq ut.attrs)


\* ------------------------------------------- correct and the masked values
\* Largest measurement value tried.
MaxY == 1
\* Measurement vectors: ny values, each with its mask bit.
MeasValues ==
    {[i \in 1..Ny |-> [v |-> val[i], m |-> mask[i]]] :
        val \in [1..Ny -> 0..MaxY], mask \in [1..Ny -> BOOLEAN]}

\* filter.correct(y), for measurements of any values
CorrectValues ==
    \E y \in MeasValues :
        /\ flt' = Correct(flt, model, y).flt
        /\ pending' = IF Correct(flt, model, y).exc = "none" THEN "correct" ELSE pending
        /\ last' = Call("correct", Correct(flt, model, y).exc, y,
                        Correct(flt, model, y).steps, None)
        /\ UNCHANGED <<ut, utwork, utf, model, work, pred_ut>>

NextMask ==
    \/ SetState
    \/ CorrectValues

SpecMask == Init /\ [][NextMask]_vars

\* Two measurement vectors with the same mask that agree on every unmasked
\* component.
SameUnmasked(y1, y2) ==
    /\ Len(y1) = Len(y2)
    /\ \A i \in 1..Len(y1) :
          /\ y1[i].m = y2[i].m
          /\ ~y1[i].m => y1[i].v = y2[i].v

=============================================================================
